---- MODULE Spec2Model ----
(***************************************************************************)
(* Model of lib/sqlalchemy/dialects/sqlite/pysqlite.py: the pysqlite       *)
(* dialect (driver loading, dialect construction, connect-argument         *)
(* derivation, disconnect classification) and its execution context.      *)
(*                                                                         *)
(* Python values are tagged records: [k |-> "None"], [k |-> "int", i],     *)
(* [k |-> "str", s], [k |-> "bool", b], [k |-> "float", m, e].  A Python    *)
(* string is a sequence of one-character strings, so that split, int(),    *)
(* float() and the `in` substring test work on characters.                 *)
(***************************************************************************)
EXTENDS Integers, Sequences, FiniteSets, TLC

VARIABLES loaded, dialect, ctx, call, ret

vars == <<loaded, dialect, ctx, call, ret>>

(* ---------------------------------------------------------------- bounds *)

\* most dot-separated components of a reported engine version string
MaxParts == 3
\* most options in a URL's query mapping
MaxQueryKeys == 2
\* longest _last_inserted_ids list of an execution context
MaxIds == 2
\* most text fragments glued together into an error message
MaxMsgParts == 2

(* --------------------------------------------------------- Python values *)

PyNone == [k |-> "None"]
PyInt(n) == [k |-> "int", i |-> n]
PyStr(cs) == [k |-> "str", s |-> cs]
PyBool(v) == [k |-> "bool", b |-> v]
PyFloat(mant, exp) == [k |-> "float", m |-> mant, e |-> exp]

\* truth value of an object in a boolean context (`if x`, `x or y`)
Truthy(x) ==
    CASE x.k = "None" -> FALSE
      [] x.k = "int" -> x.i # 0
      [] x.k = "str" -> Len(x.s) > 0
      [] x.k = "bool" -> x.b
      [] x.k = "float" -> x.m # 0

\* `a or b`
PyOr(a, b) == IF Truthy(a) THEN a ELSE b

DigitVal ==
    [c \in {"0", "1", "2", "3", "4", "5", "6", "7", "8", "9"} |->
        CASE c = "0" -> 0 [] c = "1" -> 1 [] c = "2" -> 2 [] c = "3" -> 3
          [] c = "4" -> 4 [] c = "5" -> 5 [] c = "6" -> 6 [] c = "7" -> 7
          [] c = "8" -> 8 [] c = "9" -> 9]

IsDigit(c) == c \in DOMAIN DigitVal

RECURSIVE DigitsValue(_)
DigitsValue(cs) ==
    IF cs = <<>> THEN 0
    ELSE 10 * DigitsValue(SubSeq(cs, 1, Len(cs) - 1)) + DigitVal[cs[Len(cs)]]

\* str.split(sep) for a one-character separator
RECURSIVE Split(_, _)
Split(s, sep) ==
    IF \A i \in 1..Len(s) : s[i] # sep THEN <<s>>
    ELSE LET i == CHOOSE n \in 1..Len(s) :
                      s[n] = sep /\ \A j \in 1..(n - 1) : s[j] # sep
         IN  <<SubSeq(s, 1, i - 1)>> \o Split(SubSeq(s, i + 1, Len(s)), sep)

\* sep.join(parts)
RECURSIVE Join(_, _)
Join(parts, sep) ==
    IF parts = <<>> THEN <<>>
    ELSE IF Len(parts) = 1 THEN parts[1]
    ELSE parts[1] \o <<sep>> \o Join(Tail(parts), sep)

\* int(x) of a string: the value, or ValueError for anything but decimal digits
int(cs) ==
    IF Len(cs) > 0 /\ \A i \in 1..Len(cs) : IsDigit(cs[i])
    THEN [ok |-> TRUE, v |-> DigitsValue(cs)]
    ELSE [ok |-> FALSE, v |-> 0]

\* a parse that drops the components int() cannot read
vers_skip_invalid(num) ==
    LET parts == SelectSeq(Split(num, "."), LAMBDA x : int(x).ok)
    IN  [ok |-> TRUE, t |-> [i \in 1..Len(parts) |-> PyInt(int(parts[i]).v)]]

\* vers(num): tuple([int(x) for x in num.split('.')]); ok is FALSE when an
\* int() raised ValueError
vers(num) ==
    LET parts == Split(num, ".")
    IN  IF \A i \in 1..Len(parts) : int(parts[i]).ok
        THEN [ok |-> TRUE, t |-> [i \in 1..Len(parts) |-> PyInt(int(parts[i]).v)]]
        ELSE [ok |-> FALSE, t |-> <<>>]

\* code point order of the characters the model uses
Ord(c) ==
    CASE c = "." -> 46
      [] IsDigit(c) -> 48 + DigitVal[c]
      [] OTHER -> 120

RECURSIVE StrLess(_, _)
StrLess(a, b) ==
    IF b = <<>> THEN FALSE
    ELSE IF a = <<>> THEN TRUE
    ELSE IF a[1] # b[1] THEN Ord(a[1]) < Ord(b[1])
    ELSE StrLess(Tail(a), Tail(b))

\* x < y between two objects under Python 2's default ordering: numbers
\* order by value and sort before every string
PyLess(x, y) ==
    CASE x.k = "int" /\ y.k = "int" -> x.i < y.i
      [] x.k = "int" /\ y.k = "str" -> TRUE
      [] x.k = "str" /\ y.k = "int" -> FALSE
      [] x.k = "str" /\ y.k = "str" -> StrLess(x.s, y.s)

\* a < b between tuples: the first differing position decides, else the length
RECURSIVE TupleLess(_, _)
TupleLess(a, b) ==
    IF b = <<>> THEN FALSE
    ELSE IF a = <<>> THEN TRUE
    ELSE IF a[1] # b[1] THEN PyLess(a[1], b[1])
    ELSE TupleLess(Tail(a), Tail(b))

\* a >= b between tuples
TupleGE(a, b) == ~TupleLess(a, b)

(* -------------------------------------------------------- driver loading *)

Modules == {"pysqlite2", "sqlite3"}

\* `from <name> import dbapi2`: the module, or the ImportError of that attempt
Import(name, importable) ==
    IF importable[name]
    THEN [ok |-> TRUE, module |-> name, error |-> "None"]
    ELSE [ok |-> FALSE, module |-> "None", error |-> "ImportError: " \o name]

\* a loader that surfaces the fallback's failure when both imports fail
dbapi_raise_last(importable) ==
    LET first == Import("pysqlite2", importable)
        second == Import("sqlite3", importable)
    IN  IF first.ok
        THEN [status |-> "returned", module |-> first.module, error |-> "None",
              attempts |-> <<"pysqlite2">>]
        ELSE IF second.ok
        THEN [status |-> "returned", module |-> second.module, error |-> "None",
              attempts |-> <<"pysqlite2", "sqlite3">>]
        ELSE [status |-> "raised", module |-> "None", error |-> second.error,
              attempts |-> <<"pysqlite2", "sqlite3">>]

\* SQLite_pysqlite.dbapi(): try pysqlite2, then sqlite3; re-raise the first
\* ImportError when the second import fails too
dbapi(importable) ==
    LET first == Import("pysqlite2", importable)
        second == Import("sqlite3", importable)
    IN  IF first.ok
        THEN [status |-> "returned", module |-> first.module, error |-> "None",
              attempts |-> <<"pysqlite2">>]
        ELSE IF second.ok
        THEN [status |-> "returned", module |-> second.module, error |-> "None",
              attempts |-> <<"pysqlite2", "sqlite3">>]
        ELSE [status |-> "raised", module |-> "None", error |-> first.error,
              attempts |-> <<"pysqlite2", "sqlite3">>]

(* --------------------------------------------------- dialect construction *)

\* (2, 1, '3'): the tuple the client-library version is compared with
MinPysqliteVersion == <<PyInt(2), PyInt(1), PyStr(<<"3">>)>>

\* (3, 3, 8): the engine version below which DEFAULT VALUES is unsupported
MinDefaultValuesVersion == <<PyInt(3), PyInt(3), PyInt(8)>>

\* "3.2.3": the engine version from which CAST is supported
MinCastVersion == <<"3", ".", "2", ".", "3">>

\* the components a reported dotted engine version string is made of
VersionComponents == {<<"2">>, <<"3">>, <<"1", "0">>, <<"x">>, <<>>}

SeqsUpTo(S, n) == UNION {[1..m -> S] : m \in 1..n}

\* values of dbapi.sqlite_version
VersionStrings == {Join(p, ".") : p \in SeqsUpTo(VersionComponents, MaxParts)}

\* values of dbapi.version_info
PysqliteVersionInfos ==
    {<<PyInt(2), PyInt(b), PyInt(c)>> : b \in {1, 2}, c \in {2, 3, 4}}
        \cup {<<PyInt(1), PyInt(2), PyInt(3)>>}

\* values of dbapi.sqlite_version_info
SqliteVersionInfos ==
    {<<PyInt(a), PyInt(b), PyInt(c)>> : a \in {3, 4}, b \in {3, 8}, c \in {0, 8}}
        \cup {<<PyInt(2), PyInt(8), PyInt(8)>>, <<PyInt(3), PyInt(3)>>,
              <<PyInt(3), PyInt(3), PyInt(8), PyInt(0)>>}

NoHandle == [k |-> "None"]

\* the driver handles a dialect can be constructed with: none, or the loaded
\* module, reporting some versions
Handles(module) ==
    {NoHandle} \cup
    (IF module = "None" THEN {}
     ELSE [k : {"module"}, name : {module},
           version_info : PysqliteVersionInfos,
           sqlite_version_info : SqliteVersionInfos,
           sqlite_version : VersionStrings])

\* line 136: sqlite_ver < (2, 1, '3')
IsOutdated(h) == TupleLess(h.version_info, MinPysqliteVersion)

\* a test that also treats the minimum engine version itself as too old
LacksDefaultValuesInclusive(h) ==
    \/ TupleLess(h.sqlite_version_info, MinDefaultValuesVersion)
    \/ h.sqlite_version_info = MinDefaultValuesVersion

\* line 142: self.dbapi.sqlite_version_info < (3, 3, 8)
LacksDefaultValues(h) == TupleLess(h.sqlite_version_info, MinDefaultValuesVersion)

\* a test that excludes the threshold version
SupportsCastExclusive(h, parsed) == TupleLess(vers(MinCastVersion).t, parsed.t)

\* line 144: vers(self.dbapi.sqlite_version) >= vers("3.2.3")
SupportsCast(h, parsed) == TupleGE(parsed.t, vers(MinCastVersion).t)

\* SQLite_pysqlite.__init__: base holds the flags as SQLiteDialect.__init__
\* leaves them; the result is self, the warnings emitted and how the call ended
construct(base, h) ==
    LET present == h.k # "None"
        warned == present /\ IsOutdated(h)
        sdv == IF present /\ LacksDefaultValues(h) THEN FALSE
               ELSE base.supports_default_values
        parsed == IF present THEN vers(h.sqlite_version) ELSE [ok |-> TRUE, t |-> <<>>]
        name == IF present THEN h.name ELSE "None"
    IN  IF ~parsed.ok
        THEN [status |-> "raised", error |-> "ValueError", warned |-> warned,
              self |-> [state |-> "failed", dbapi |-> name,
                        supports_default_values |-> sdv,
                        supports_cast |-> base.supports_cast]]
        ELSE [status |-> "returned", error |-> "None", warned |-> warned,
              self |-> [state |-> "constructed", dbapi |-> name,
                        supports_default_values |-> sdv,
                        supports_cast |-> (~present \/ SupportsCast(h, parsed))]]

(* ------------------------------------------------ connect-argument derivation *)

\* the in-memory sentinel ':memory:'
MemorySentinel == PyStr(<<":", "m", "e", "m", "o", "r", "y", ":">>)

\* values of url.username, url.password and url.host
OptionalNames == {PyNone, PyStr(<<>>), PyStr(<<"u">>)}

\* values of url.port
OptionalPorts == {PyNone, PyInt(0), PyInt(5432)}

\* values of url.database
Databases == {PyNone, PyStr(<<>>), MemorySentinel, PyStr(<<"/", "a", "/", "b", ".", "d", "b">>), PyStr(<<"a", ".", "d", "b">>)}

\* the option keys create_connect_args coerces, with the type of each
RecognizedTypes ==
    [timeout |-> "float", isolation_level |-> "str", detect_types |-> "int",
     check_same_thread |-> "bool", cached_statements |-> "int"]

QueryKeys == DOMAIN RecognizedTypes \cup {"foo"}

\* the string values a query option can carry
QueryValues(key) ==
    CASE key = "timeout" -> {PyStr(<<"2", ".", "5">>), PyStr(<<"3", "0">>), PyStr(<<"x">>)}
      [] key = "isolation_level" -> {PyStr(<<"x">>)}
      [] key = "detect_types" -> {PyStr(<<"1">>), PyStr(<<"x">>)}
      [] key = "check_same_thread" ->
            {PyStr(<<"f", "a", "l", "s", "e">>), PyStr(<<"t", "r", "u", "e">>), PyStr(<<"1">>), PyStr(<<"x">>)}
      [] key = "cached_statements" -> {PyStr(<<"3", "0">>), PyStr(<<"x">>)}
      [] OTHER -> {PyStr(<<"1">>), PyStr(<<"t", "r", "u", "e">>)}

\* values of url.query: a mapping of at most MaxQueryKeys options
Queries ==
    UNION {{q \in [ks -> UNION {QueryValues(key) : key \in ks}] :
                \A key \in ks : q[key] \in QueryValues(key)} :
           ks \in {K \in SUBSET QueryKeys : Cardinality(K) <= MaxQueryKeys}}

Urls ==
    [username : OptionalNames, password : OptionalNames, host : OptionalNames,
     port : OptionalPorts, database : Databases, query : Queries]

\* float(x) of a string of the form digits or digits.digits; the value is
\* m / 10^e
float(cs) ==
    LET parts == Split(cs, ".")
    IN  IF Len(parts) = 1 /\ int(parts[1]).ok
        THEN [ok |-> TRUE, v |-> PyFloat(int(parts[1]).v, 0)]
        ELSE IF Len(parts) = 2 /\ int(parts[1] \o parts[2]).ok
        THEN [ok |-> TRUE, v |-> PyFloat(int(parts[1] \o parts[2]).v, Len(parts[2]))]
        ELSE [ok |-> FALSE, v |-> PyNone]

\* util.asbool of a string: the spellings read as true and as false
asbool(cs) ==
    IF cs \in {<<"t", "r", "u", "e">>, <<"y", "e", "s">>, <<"o", "n">>, <<"y">>, <<"t">>, <<"1">>}
    THEN [ok |-> TRUE, v |-> PyBool(TRUE)]
    ELSE IF cs \in {<<"f", "a", "l", "s", "e">>, <<"n", "o">>, <<"o", "f", "f">>, <<"n">>, <<"f">>, <<"0">>}
    THEN [ok |-> TRUE, v |-> PyBool(FALSE)]
    ELSE [ok |-> FALSE, v |-> PyNone]

\* util.coerce_kw_type(kw, key, type_): kw with kw[key] converted to type_
\* when the key is present and its value is not of that type already
coerce_kw_type(kw, key, type_) ==
    IF key \notin DOMAIN kw \/ kw[key].k = type_ \/ kw[key].k = "None"
    THEN [ok |-> TRUE, kw |-> kw]
    ELSE LET conv == CASE type_ = "bool" -> asbool(kw[key].s)
                       [] type_ = "float" -> float(kw[key].s)
                       [] type_ = "int" ->
                            [ok |-> int(kw[key].s).ok, v |-> PyInt(int(kw[key].s).v)]
                       [] type_ = "str" -> [ok |-> TRUE, v |-> kw[key]]
         IN  IF conv.ok
             THEN [ok |-> TRUE, kw |-> [kw EXCEPT ![key] = conv.v]]
             ELSE [ok |-> FALSE, kw |-> kw]

\* lines 171-175: the five coercions in order, stopping at the first that raises
RECURSIVE CoerceAll(_, _)
CoerceAll(kw, todo) ==
    IF todo = <<>> THEN [ok |-> TRUE, kw |-> kw]
    ELSE LET r == coerce_kw_type(kw, todo[1][1], todo[1][2])
         IN  IF r.ok THEN CoerceAll(r.kw, Tail(todo)) ELSE r

\* a derivation that coerces check_same_thread with int
CoercionsIntThread ==
    << <<"timeout", "float">>, <<"isolation_level", "str">>,
       <<"detect_types", "int">>, <<"check_same_thread", "int">>,
       <<"cached_statements", "int">> >>

Coercions ==
    << <<"timeout", "float">>, <<"isolation_level", "str">>,
       <<"detect_types", "int">>, <<"check_same_thread", "bool">>,
       <<"cached_statements", "int">> >>

\* line 161: url.username or url.password or url.host or url.port
HasNetworkPart(url) ==
    Truthy(PyOr(PyOr(PyOr(url.username, url.password), url.host), url.port))

\* a path resolution that keeps an empty string as the file name
FilenameNoneOnly(url) ==
    IF url.database.k = "None" THEN MemorySentinel ELSE url.database

\* line 168: url.database or ':memory:'
Filename(url) == PyOr(url.database, MemorySentinel)

\* the three URL forms the ArgumentError message lists
ValidForms == {"sqlite:///:memory: (or, sqlite://)",
               "sqlite:///relative/path/to/file.db",
               "sqlite:////absolute/path/to/file.db"}

NoArgs == [filled |-> FALSE, args |-> <<>>, opts |-> <<>>]

\* SQLite_pysqlite.create_connect_args(url)
create_connect_args(url) ==
    IF HasNetworkPart(url)
    THEN [status |-> "raised",
          error |-> [type |-> "ArgumentError", url |-> url, forms |-> ValidForms],
          result |-> NoArgs]
    ELSE LET opts == CoerceAll(url.query, Coercions)
         IN  IF ~opts.ok
             THEN [status |-> "raised",
                   error |-> [type |-> "ValueError", url |-> url, forms |-> {}],
                   result |-> NoArgs]
             ELSE [status |-> "returned",
                   error |-> [type |-> "None", url |-> url, forms |-> {}],
                   result |-> [filled |-> TRUE, args |-> <<Filename(url)>>,
                               opts |-> opts.kw]]

(* ------------------------------------------------ disconnect classification *)

\* "Cannot operate on a closed database."
ClosedDatabaseText ==
    << "C", "a", "n", "n", "o", "t", " ", "o", "p", "e", "r", "a",
       "t", "e", " ", "o", "n", " ", "a", " ", "c", "l", "o", "s",
       "e", "d", " ", "d", "a", "t", "a", "b", "a", "s", "e", "." >>

\* `needle in text`
Contains(text, needle) ==
    \E i \in 0..(Len(text) - Len(needle)) :
        SubSeq(text, i + 1, i + Len(needle)) = needle

\* a test that wants the whole message to be the text
EqualsText(text, needle) == text = needle

\* the pieces error messages are made of
MessageParts ==
    {ClosedDatabaseText,
     SubSeq(ClosedDatabaseText, 1, Len(ClosedDatabaseText) - 1),
     <<"c">> \o Tail(ClosedDatabaseText),
     <<".">>, <<"x">>}

RECURSIVE Concat(_)
Concat(parts) == IF parts = <<>> THEN <<>> ELSE parts[1] \o Concat(Tail(parts))

Messages == {<<>>} \cup {Concat(p) : p \in SeqsUpTo(MessageParts, MaxMsgParts)}

\* the DB-API exception classes of a driver module, each with its base classes
ErrorBases ==
    [ProgrammingError |-> {"ProgrammingError", "DatabaseError", "Error"},
     OperationalError |-> {"OperationalError", "DatabaseError", "Error"},
     DatabaseError |-> {"DatabaseError", "Error"}]

\* the errors a driver call can raise
Errors == [module : Modules, cls : DOMAIN ErrorBases, msg : Messages]

\* isinstance(e, <module>.<cls>)
IsInstance(e, module, cls) == e.module = module /\ cls \in ErrorBases[e.cls]

\* a classification that looks at the message alone
is_disconnect_any_type(self, e) == Contains(e.msg, ClosedDatabaseText)

\* SQLite_pysqlite.is_disconnect(e)
is_disconnect(self, e) ==
    /\ IsInstance(e, self.dbapi, "ProgrammingError")
    /\ Contains(e.msg, ClosedDatabaseText)

(* ------------------------------------------------------ execution context *)

\* values of an element of _last_inserted_ids
IdValues == {PyNone, PyInt(0), PyInt(7)}

\* values of cursor.lastrowid
RowIds == {PyInt(0), PyInt(5)}

IdLists == {<<>>} \cup SeqsUpTo(IdValues, MaxIds)

Contexts ==
    [isinsert : BOOLEAN, executemany : BOOLEAN, _last_inserted_ids : IdLists,
     lastrowid : RowIds]

\* a capture that overwrites every falsy first id
post_exec_falsy(c) ==
    IF c.isinsert /\ ~c.executemany
       /\ (Len(c._last_inserted_ids) = 0 \/ ~Truthy(c._last_inserted_ids[1]))
    THEN [c EXCEPT !._last_inserted_ids =
              <<c.lastrowid>> \o SubSeq(c._last_inserted_ids, 2, Len(c._last_inserted_ids))]
    ELSE c

\* SQLite_pysqliteExecutionContext.post_exec()
post_exec(c) ==
    IF c.isinsert /\ ~c.executemany
       /\ (Len(c._last_inserted_ids) = 0 \/ c._last_inserted_ids[1].k = "None")
    THEN [c EXCEPT !._last_inserted_ids =
              <<c.lastrowid>> \o SubSeq(c._last_inserted_ids, 2, Len(c._last_inserted_ids))]
    ELSE c

(* ------------------------------------------------------------ the machine *)

NoDialect == [state |-> "none", dbapi |-> "None",
              supports_default_values |-> TRUE, supports_cast |-> TRUE]
NoCtx == [state |-> "none"]
NoCall == [op |-> "none"]
NoRet == [status |-> "none"]

\* nothing loaded, nothing constructed
Init ==
    /\ loaded = "None"
    /\ dialect = NoDialect
    /\ ctx = NoCtx
    /\ call = NoCall
    /\ ret = NoRet

\* the engine strategy calls dialect_cls.dbapi() once to load the driver
LoadDriver ==
    /\ call.op = "none"
    /\ \E importable \in [Modules -> BOOLEAN] :
        LET r == dbapi(importable)
        IN  /\ call' = [op |-> "dbapi", importable |-> importable]
            /\ ret' = r
            /\ loaded' = r.module
            /\ UNCHANGED <<dialect, ctx>>

\* SQLite_pysqlite(dbapi=...) with no handle or the loaded one
Construct ==
    /\ call.op = "dbapi"
    /\ \E base \in [supports_default_values : BOOLEAN, supports_cast : BOOLEAN],
         h \in Handles(loaded) :
        LET r == construct(base, h)
        IN  /\ call' = [op |-> "__init__", base |-> base, dbapi |-> h]
            /\ ret' = [status |-> r.status, error |-> r.error, warned |-> r.warned]
            /\ dialect' = r.self
            /\ UNCHANGED <<loaded, ctx>>

Next == LoadDriver \/ Construct

\* driver loading followed by dialect construction
Spec == Init /\ [][Next]_vars

\* a dialect constructed without a driver handle
InitConnect ==
    /\ loaded = "None"
    /\ dialect = construct([supports_default_values |-> TRUE, supports_cast |-> TRUE],
                           NoHandle).self
    /\ ctx = NoCtx
    /\ call = NoCall
    /\ ret = NoRet

\* dialect.create_connect_args(url) for a connection attempt
CreateConnectArgs ==
    /\ call.op = "none"
    /\ \E url \in Urls :
        LET r == create_connect_args(url)
        IN  /\ call' = [op |-> "create_connect_args", url |-> url]
            /\ ret' = r
            /\ UNCHANGED <<loaded, dialect, ctx>>

NextConnect == CreateConnectArgs

\* connect-argument derivation on a constructed dialect
SpecConnect == InitConnect /\ [][NextConnect]_vars

\* a dialect constructed with a loaded driver, whatever its flags came out as
InitRuntime ==
    /\ loaded \in Modules
    /\ dialect \in [state : {"constructed"}, dbapi : {loaded},
                    supports_default_values : BOOLEAN, supports_cast : BOOLEAN]
    /\ ctx = NoCtx
    /\ call = NoCall
    /\ ret = NoRet

\* the engine asks the dialect whether an error raised by the driver means the
\* connection is gone
IsDisconnect ==
    /\ call.op = "none"
    /\ \E e \in Errors :
        /\ call' = [op |-> "is_disconnect", e |-> e]
        /\ ret' = [status |-> "returned", value |-> is_disconnect(dialect, e)]
        /\ UNCHANGED <<loaded, dialect, ctx>>

\* a statement has been executed on a cursor and the context's post_exec runs
PostExec ==
    /\ call.op = "none"
    /\ \E c \in Contexts :
        /\ call' = [op |-> "post_exec", before |-> c]
        /\ ctx' = [state |-> "done", self |-> post_exec(c)]
        /\ ret' = [status |-> "returned"]
        /\ UNCHANGED <<loaded, dialect>>

NextRuntime == IsDisconnect \/ PostExec

\* calls made on a dialect in use
SpecRuntime == InitRuntime /\ [][NextRuntime]_vars

(* ------------------------------------------------------------- properties *)

HandlePresent == call.dbapi.k # "None"

\* t < (a, b, c) for a tuple t of integers, position by position
LexBelow(t, a, b, c) ==
    \/ Len(t) = 0
    \/ t[1].i < a
    \/ /\ t[1].i = a
       /\ \/ Len(t) < 2
          \/ t[2].i < b
          \/ /\ t[2].i = b
             /\ (Len(t) < 3 \/ t[3].i < c)

\* every dot-separated component of s is a run of decimal digits
AllNumeric(s) ==
    /\ Len(s) > 0
    /\ s[1] # "." /\ s[Len(s)] # "."
    /\ \A i \in 1..Len(s) : s[i] = "." \/ IsDigit(s[i])
    /\ \A i \in 1..(Len(s) - 1) : ~(s[i] = "." /\ s[i + 1] = ".")

\* C4: constructed with a driver handle, the dialect has supports_default_values
\* cleared when the handle's sqlite_version_info is below (3, 3, 8) and at the
\* inherited value otherwise; without a handle it keeps the inherited value.
DefaultValuesFlag ==
    call.op = "__init__" =>
        dialect.supports_default_values =
            IF HandlePresent /\ LexBelow(call.dbapi.sqlite_version_info, 3, 3, 8)
            THEN FALSE
            ELSE call.base.supports_default_values

DefaultValuesFlagWitness ==
    /\ call.op = "__init__"
    /\ HandlePresent
    /\ call.dbapi.sqlite_version_info = <<PyInt(3), PyInt(3), PyInt(0)>>
    /\ call.base.supports_default_values
    /\ ~dialect.supports_default_values

\* C5: after a construction that completed, supports_cast is true exactly when
\* there is no driver handle or the handle's sqlite_version, read as a tuple of
\* integers, is at least (3, 2, 3).
SupportsCastFlag ==
    (call.op = "__init__" /\ ret.status = "returned") =>
        dialect.supports_cast =
            (~HandlePresent
               \/ ~LexBelow([i \in 1..Len(Split(call.dbapi.sqlite_version, ".")) |->
                               PyInt(DigitsValue(Split(call.dbapi.sqlite_version, ".")[i]))],
                            3, 2, 3))

SupportsCastFlagWitness ==
    /\ call.op = "__init__"
    /\ ret.status = "returned"
    /\ HandlePresent
    /\ call.dbapi.sqlite_version = <<"3", ".", "2", ".", "3">>
    /\ dialect.supports_cast

\* C6: a construction that completes has emitted the out-of-date warning
\* exactly when a driver handle is present and its version_info is below
\* (2, 1, 3).
OutdatedWarningExact ==
    (call.op = "__init__" /\ ret.status = "returned") =>
        (ret.warned <=> (HandlePresent /\ LexBelow(call.dbapi.version_info, 2, 1, 3)))

\* C7 as stated: construction never raises and leaves both flags boolean.
ConstructionNeverRaises ==
    call.op = "__init__" =>
        /\ ret.status = "returned"
        /\ dialect.supports_default_values \in BOOLEAN
        /\ dialect.supports_cast \in BOOLEAN

\* C7 amended: construction raises exactly when a driver handle is present and
\* some component of its sqlite_version is not a run of decimal digits, and
\* then with ValueError; in every other case it completes; both flags are
\* boolean either way.
ConstructionRaisesOnlyOnNonNumeric ==
    call.op = "__init__" =>
        /\ ret.status = "raised" <=>
              (HandlePresent /\ ~AllNumeric(call.dbapi.sqlite_version))
        /\ ret.status = "raised" => ret.error = "ValueError"
        /\ ret.status \in {"raised", "returned"}
        /\ dialect.supports_default_values \in BOOLEAN
        /\ dialect.supports_cast \in BOOLEAN

ConstructionCompletesWitness ==
    /\ call.op = "__init__"
    /\ ret.status = "returned"
    /\ HandlePresent
    /\ Len(Split(call.dbapi.sqlite_version, ".")) = 3
    /\ ret.warned

\* C9: pysqlite2 is attempted first and returned whenever it loads; sqlite3 is
\* attempted only after pysqlite2 failed and is returned if it loads; when both
\* fail the error raised is the one of the pysqlite2 attempt.
DriverLoadOrder ==
    call.op = "dbapi" =>
        /\ ret.attempts[1] = "pysqlite2"
        /\ call.importable["pysqlite2"] =>
              /\ ret.status = "returned" /\ ret.module = "pysqlite2"
              /\ ret.attempts = <<"pysqlite2">>
        /\ (\E i \in 1..Len(ret.attempts) : ret.attempts[i] = "sqlite3") =>
              /\ ~call.importable["pysqlite2"]
              /\ ret.attempts = <<"pysqlite2", "sqlite3">>
        /\ (~call.importable["pysqlite2"] /\ call.importable["sqlite3"]) =>
              ret.status = "returned" /\ ret.module = "sqlite3"
        /\ (~call.importable["pysqlite2"] /\ ~call.importable["sqlite3"]) =>
              ret.status = "raised" /\ ret.error = "ImportError: pysqlite2"
        /\ loaded = ret.module

DriverLoadOrderWitness ==
    /\ call.op = "dbapi"
    /\ ret.status = "raised"
    /\ ret.attempts = <<"pysqlite2", "sqlite3">>

\* a URL part that is neither absent nor empty
IsSet(x) == x.k # "None" /\ x # PyStr(<<>>)

\* C1: a URL with a username, password, host or port set fails with the
\* invalid-URL ArgumentError, which carries the URL and the three valid forms,
\* and yields no connect arguments; a URL with none of them never fails so.
InvalidUrlExact ==
    call.op = "create_connect_args" =>
        LET url == call.url
            anySet == IsSet(url.username) \/ IsSet(url.password)
                        \/ IsSet(url.host) \/ IsSet(url.port)
        IN  /\ anySet =>
                  /\ ret.status = "raised"
                  /\ ret.error.type = "ArgumentError"
                  /\ ret.error.url = url
                  /\ Cardinality(ret.error.forms) = 3
                  /\ ~ret.result.filled
            /\ ~anySet => ret.error.type # "ArgumentError"

\* C2: the positional arguments returned are one element: ':memory:' when the
\* URL's database is None or empty, the database unchanged otherwise.
PositionalArg ==
    (call.op = "create_connect_args" /\ ret.status = "returned") =>
        /\ Len(ret.result.args) = 1
        /\ ret.result.args[1] =
              IF call.url.database \in {PyNone, PyStr(<<>>)}
              THEN PyStr(<<":", "m", "e", "m", "o", "r", "y", ":">>)
              ELSE call.url.database

PositionalArgWitness ==
    /\ call.op = "create_connect_args"
    /\ ret.status = "returned"
    /\ call.url.database = PyStr(<<>>)
    /\ ret.result.args = <<PyStr(<<":", "m", "e", "m", "o", "r", "y", ":">>)>>

\* C3: the keyword mapping returned has the keys of the URL's query; a key that
\* is not recognized keeps its string; a recognized key holds a value of its
\* declared type, check_same_thread 'false' being False and 'true' or '1' True.
OptionCoercion ==
    (call.op = "create_connect_args" /\ ret.status = "returned") =>
        LET q == call.url.query
            opts == ret.result.opts
        IN  /\ DOMAIN opts = DOMAIN q
            /\ \A key \in DOMAIN q :
                  /\ key \notin {"timeout", "isolation_level", "detect_types",
                                 "check_same_thread", "cached_statements"} =>
                        opts[key] = q[key]
                  /\ key = "timeout" => opts[key].k = "float"
                  /\ key = "isolation_level" => opts[key] = q[key]
                  /\ key \in {"detect_types", "cached_statements"} => opts[key].k = "int"
                  /\ key = "check_same_thread" =>
                        /\ opts[key].k = "bool"
                        /\ q[key] = PyStr(<<"f", "a", "l", "s", "e">>) => ~opts[key].b
                        /\ q[key] \in {PyStr(<<"t", "r", "u", "e">>), PyStr(<<"1">>)} =>
                              opts[key].b

OptionCoercionWitness ==
    /\ call.op = "create_connect_args"
    /\ ret.status = "returned"
    /\ DOMAIN call.url.query = {"check_same_thread", "foo"}
    /\ call.url.query["check_same_thread"] = PyStr(<<"f", "a", "l", "s", "e">>)
    /\ ret.result.opts["check_same_thread"] = PyBool(FALSE)
    /\ ret.result.opts["foo"] = PyStr(<<"1">>)

\* C8: is_disconnect is true exactly for an error of the dialect's driver's
\* ProgrammingError class whose message has the closed-database text somewhere
\* in it.
DisconnectExact ==
    call.op = "is_disconnect" =>
        (ret.value <=>
            /\ call.e.module = dialect.dbapi
            /\ call.e.cls = "ProgrammingError"
            /\ \E i \in 1..Len(call.e.msg) : \E j \in i..Len(call.e.msg) :
                  SubSeq(call.e.msg, i, j) = ClosedDatabaseText)

DisconnectExactWitness ==
    /\ call.op = "is_disconnect"
    /\ ret.value
    /\ call.e.msg # ClosedDatabaseText

\* C10: for a single-row insert whose _last_inserted_ids is empty or starts
\* with None, post_exec sets the list to lastrowid followed by the old elements
\* from the second on; in every other case the list is as it was.
LastInsertedIds ==
    call.op = "post_exec" =>
        LET b == call.before
            old == b._last_inserted_ids
            new == ctx.self._last_inserted_ids
        IN  IF b.isinsert /\ ~b.executemany /\ (old = <<>> \/ old[1] = PyNone)
            THEN /\ Len(new) = (IF old = <<>> THEN 1 ELSE Len(old))
                 /\ new[1] = b.lastrowid
                 /\ \A i \in 2..Len(old) : new[i] = old[i]
            ELSE new = old

LastInsertedIdsWitness ==
    /\ call.op = "post_exec"
    /\ call.before.isinsert /\ ~call.before.executemany
    /\ call.before._last_inserted_ids = <<PyNone, PyInt(7)>>
    /\ ctx.self._last_inserted_ids = <<call.before.lastrowid, PyInt(7)>>

====
